---------------------------- MODULE Spec2Model ----------------------------
(***************************************************************************)
(* Model of the job scraper: JobScraper (scrapper.py) and the Flask host   *)
(* that drives it (app.py).                                                *)
(*                                                                         *)
(* Strings are sequences of symbols.  A symbol stands for a run of         *)
(* characters without a hyphen (a word, a path, a host); the symbol "-"    *)
(* is the hyphen itself, "http" is the scheme prefix of an absolute URL.   *)
(***************************************************************************)
EXTENDS Naturals, Sequences, FiniteSets

VARIABLES
    file,           \* seen_jobs.json on durable storage
    proc,           \* "down" | "up" | "failed" (import of app.py raised)
    seen_jobs,      \* JobScraper.seen_jobs: [type, items]
    pc,             \* per thread: position inside check_jobs / scrape_all
    idx,            \* per thread: index of the next company of the for loop
    all_new_jobs,   \* per thread: scrape_all's local list
    last,           \* per thread: how the latest scraper call went: the outcome
                    \* of its fetch, the jobs it returned, the jobs found new
    trace,          \* per thread, history: the last two of the cycle's
                    \* "fetch" / "sleep" events
    failedSrc,      \* per thread, history: an HTTP request of this cycle raised
    seen0,          \* per thread, history: ids in seen_jobs when the cycle began
    err,            \* per thread: exception caught by check_jobs ("none" if none)
    last_results,   \* app.last_results
    sent,           \* ids of the postings handed to mail.send
    returned,       \* history: ids of every novel list scrape_all returned
    inserted,       \* history: ids inserted in seen_jobs since process start
    persisted,      \* history: ids inserted by a cycle whose save completed
    written,        \* history: save_seen_jobs has opened the file
    runs,           \* scheduled firings so far
    crashes,        \* process crashes so far
    fpIn,           \* inputs of the fingerprint check (a pair of postings)
    fpOut           \* get_job_id of each

vars == <<file, proc, seen_jobs, pc, idx, all_new_jobs, last, trace,
          failedSrc, seen0, err, last_results, sent, returned, inserted,
          persisted, written, runs, crashes, fpIn, fpOut>>

fpVars == <<fpIn, fpOut>>

-----------------------------------------------------------------------------
(* Bounds *)

MaxLinks == 1       \* elements of a fetched document
MaxRuns == 1        \* scheduled firings
MaxCrashes == 1     \* process crashes
MaxStrLen == 2      \* symbols per string in the fingerprint check

-----------------------------------------------------------------------------
(* Strings *)

Min(a, b) == IF a < b THEN a ELSE b

\* s[-2:]
LastTwo(s) == SubSeq(s, IF Len(s) > 2 THEN Len(s) - 1 ELSE 1, Len(s))

\* s[:n]
Take(s, n) == SubSeq(s, 1, Min(n, Len(s)))

\* term in text
Contains(text, term) ==
    \E i \in 1..(Len(text) + 1) :
        /\ i + Len(term) - 1 <= Len(text)
        /\ SubSeq(text, i, i + Len(term) - 1) = term

\* str.lower(), symbol by symbol
LowerSym(c) ==
    CASE c = "Intern" -> "intern"
      [] c = "Java" -> "java"
      [] c = "Python" -> "python"
      [] OTHER -> c

Lower(text) == [i \in 1..Len(text) |-> LowerSym(text[i])]

\* href.startswith('http')
IsAbsolute(href) == Len(href) > 0 /\ href[1] = "http"

\* urljoin(base_url, href) for the hrefs of the model: an absolute href is
\* kept, a rooted path is appended to the host.
urljoin(base, href) == IF IsAbsolute(href) THEN href ELSE base \o href

-----------------------------------------------------------------------------
(* JobScraper: configuration *)

companies == <<
    [name |-> <<"Google">>, base_url |-> <<"http", "careers.google.com">>,
     type |-> "google"],
    [name |-> <<"Microsoft">>, base_url |-> <<"http", "careers.microsoft.com">>,
     type |-> "microsoft"],
    [name |-> <<"Amazon">>, base_url |-> <<"http", "amazon.jobs">>,
     type |-> "amazon"] >>

NumCompanies == Len(companies)

CardCap == 15       \* job_elements[:15], job_cards[:15]
LinkCap == 30       \* all_links[:30]
FallbackCap == 10   \* len(jobs) >= 10: break
TitleCap == 100     \* text[:100]

-----------------------------------------------------------------------------
(* JobScraper: fingerprint *)

\* hashlib.md5(...).hexdigest(), taken as collision-free on its argument
Md5(s) == [md5 |-> s]

\* f"{job['company']}-{job['title']}-{job['url']}"
JobString(job) == job.company \o <<"-">> \o job.title \o <<"-">> \o job.url

get_job_id(job) == Md5(JobString(job))

-----------------------------------------------------------------------------
(* JobScraper: relevance *)

keywords == { <<"backend">>, <<"back", "-", "end">>, <<"java">>, <<"python">>,
              <<"go">>, <<"golang">>, <<"node">>, <<"nodejs">>, <<"spring">>,
              <<"django">>, <<"flask">>, <<"api">>, <<"microservice">>,
              <<"database">>, <<"sql">>, <<"nosql">>, <<"aws">>, <<"azure">>,
              <<"gcp">>, <<"cloud">>, <<"distributed">>, <<"server">>,
              <<"software", "engineer">>, <<"developer">> }

internship_terms == { <<"intern">>, <<"internship">>,
                      <<"university", "graduate">>, <<"new", "grad">>,
                      <<"student">> }

is_backend_internship(job_title) ==
    LET text == Lower(job_title)
        has_internship == \E term \in internship_terms : Contains(text, term)
        has_backend == \E term \in keywords : Contains(text, term)
    IN  has_internship /\ has_backend

-----------------------------------------------------------------------------
(* Fetched documents *)

\* What a page holds: container elements (class contains "job" or "card")
\* and anchors.  Every model text is between 10 and 150 characters long.
E1 == [text |-> <<"Python", "Intern">>, href |-> <<"/jobs/1">>]
E2 == [text |-> <<"frontend", "intern">>, href |-> <<"/jobs/2">>]
E3 == [text |-> <<"java", "intern">>, href |-> <<"http", "a", "-", "http", "b">>]
E4 == [text |-> <<"java", "intern", "-", "http", "a">>, href |-> <<"http", "b">>]

\* The elements the pages of each company are drawn from
Elements(type) ==
    CASE type = "google" -> {E2, E3, E4}
      [] type = "microsoft" -> {E1}
      [] OTHER -> {E1, E2}

ElemSeqs(type) == UNION { [1..n -> Elements(type)] : n \in 0..MaxLinks }

\* Documents of at most MaxLinks elements, containers and anchors together
Docs(type) ==
    { d \in [cards : ElemSeqs(type), links : ElemSeqs(type)] :
        Len(d.cards) + Len(d.links) <= MaxLinks }

EmptyDoc == [cards |-> <<>>, links |-> <<>>]

Statuses == {200, 503}

\* What requests.get and BeautifulSoup can do on one call
Responses(type) ==
    [kind : {"timeout", "conn_error"}, status : {0}, parses : {FALSE},
     doc : {EmptyDoc}]
    \cup [kind : {"http"}, status : Statuses, parses : {FALSE}, doc : {EmptyDoc}]
    \cup [kind : {"http"}, status : Statuses, parses : {TRUE}, doc : Docs(type)]

\* response.status_code is 2xx or 3xx (the code never looks at it)
OkStatus(status) == status >= 200 /\ status < 400

\* The exception the try block of a scraper meets on response r
Raised(r) ==
    CASE r.kind = "timeout" -> "Timeout"
      [] r.kind = "conn_error" -> "ConnectionError"
      [] r.kind = "http" /\ ~r.parses -> "ParseError"
      [] OTHER -> "none"

FetchErrors == {"Timeout", "ConnectionError"}

-----------------------------------------------------------------------------
(* JobScraper: the scrapers *)

MakeJob(company, title, url) ==
    [company |-> company.name, title |-> title, url |-> url,
     location |-> <<"US">>]

RECURSIVE CardJobs(_, _, _)
\* for elem in job_elements[:15]: the job of each element whose title is relevant
CardJobs(company, elems, jobs) ==
    IF elems = <<>> THEN jobs
    ELSE LET elem == Head(elems)
             job == MakeJob(company, elem.text,
                            urljoin(company.base_url, elem.href))
         IN  CardJobs(company, Tail(elems),
                      IF is_backend_internship(elem.text)
                      THEN Append(jobs, job) ELSE jobs)

RECURSIVE LinkJobs(_, _, _, _, _, _)
\* for link in all_links[:30]: the job of each anchor whose text holds one of
\* `terms` and is relevant, the title cut to `cut`, at most `cap` jobs
LinkJobs(company, links, jobs, terms, cut, cap) ==
    IF links = <<>> \/ Len(jobs) >= cap THEN jobs
    ELSE LET link == Head(links)
             text == link.text
             full_url == IF IsAbsolute(link.href) THEN link.href
                         ELSE urljoin(company.base_url, link.href)
             job == MakeJob(company, Take(text, cut), full_url)
             keep == /\ text # <<>>
                     /\ \E term \in terms : Contains(Lower(text), <<term>>)
                     /\ is_backend_internship(text)
         IN  LinkJobs(company, Tail(links),
                      IF keep THEN Append(jobs, job) ELSE jobs, terms, cut, cap)

Unbounded == 1000

\* scrape_google, the body of its try block
GoogleJobs(company, doc) ==
    IF doc.cards = <<>>
    THEN LinkJobs(company, Take(doc.links, LinkCap), <<>>,
                  {"intern", "software"}, TitleCap, FallbackCap)
    ELSE CardJobs(company, Take(doc.cards, CardCap), <<>>)

\* scrape_microsoft, the body of its try block
MicrosoftJobs(company, doc) ==
    CardJobs(company, Take(doc.cards, CardCap), <<>>)

\* scrape_generic, the body of its try block
GenericJobs(company, doc) ==
    LinkJobs(company, Take(doc.links, LinkCap), <<>>,
             {"intern", "software", "developer", "engineer"},
             Unbounded, Unbounded)

\* A handler that names one exception class: except requests.Timeout
CaughtTimeoutOnly(exc) == exc = "Timeout"

\* except Exception as e: every exception of the try block is caught
Caught(exc) == TRUE

\* One scraper call: the jobs it returns, whether time.sleep ran, and the
\* exception that leaves it (none, as every one is caught)
Scrape(company, r) ==
    LET exc == Raised(r)
        jobs == CASE company.type = "google" -> GoogleJobs(company, r.doc)
                  [] company.type = "microsoft" -> MicrosoftJobs(company, r.doc)
                  [] OTHER -> GenericJobs(company, r.doc)
    IN  IF exc # "none"
        THEN [jobs |-> <<>>, slept |-> FALSE,
              raised |-> IF Caught(exc) THEN "none" ELSE exc]
        ELSE [jobs |-> jobs, slept |-> TRUE, raised |-> "none"]

-----------------------------------------------------------------------------
(* JobScraper: the Seen-Set *)

EmptyDict == [type |-> "dict", items |-> <<>>]
EmptyList == [type |-> "list", items |-> <<>>]

Missing == [kind |-> "missing", valid |-> FALSE, doc |-> EmptyDict]
Unreadable == [kind |-> "unreadable", valid |-> FALSE, doc |-> EmptyDict]
\* an empty, truncated or otherwise malformed text
Truncated == [kind |-> "text", valid |-> FALSE, doc |-> EmptyDict]

\* json.dump(v, f): the text of v
JsonDump(v) == [kind |-> "text", valid |-> TRUE, doc |-> v]

\* self.seen_jobs[job_id] = job
Put(d, job_id, job) ==
    [k \in DOMAIN d \cup {job_id} |-> IF k = job_id THEN job ELSE d[k]]

\* load_seen_jobs: what open and json.load do on file f
load_seen_jobs(f) ==
    CASE f.kind = "missing" -> [raised |-> "none", seen |-> EmptyDict]
      [] f.kind = "unreadable" -> [raised |-> "PermissionError", seen |-> EmptyDict]
      [] f.kind = "text" /\ ~f.valid -> [raised |-> "none", seen |-> EmptyDict]
      [] OTHER -> [raised |-> "none", seen |-> f.doc]

\* A filter that never finds a job seen
UnseenAlways(job_id, d) == TRUE

\* job_id not in self.seen_jobs
Unseen(job_id, d) == job_id \notin DOMAIN d

RECURSIVE Filter(_, _, _, _)
\* scrape_all's "for job in jobs" on a dict: the dict, the new jobs, and the
\* ids found already seen
Filter(jobs, d, new, old) ==
    IF jobs = <<>> THEN [d |-> d, new |-> new, old |-> old]
    ELSE LET job == Head(jobs)
             job_id == get_job_id(job)
         IN  IF Unseen(job_id, d)
             THEN Filter(Tail(jobs), Put(d, job_id, job), Append(new, job), old)
             ELSE Filter(Tail(jobs), d, new, old \cup {job_id})

Ids(jobs) == {get_job_id(jobs[i]) : i \in 1..Len(jobs)}
IdSeq(jobs) == [i \in 1..Len(jobs) |-> get_job_id(jobs[i])]

-----------------------------------------------------------------------------
(* The host process (app.py) *)

Threads == {"main", "sched"}

NoResults == [jobs |-> <<>>, last_check |-> "None", total_found |-> 0]

NoCall == [how |-> "none", jobs |-> <<>>, new |-> <<>>]

\* The posting a previous deployment may have left in seen_jobs.json
OldJob == MakeJob(companies[2], E1.text, urljoin(companies[2].base_url, E1.href))

InitFiles ==
    { Missing, Unreadable, Truncated, JsonDump(EmptyList),
      JsonDump([type |-> "dict", items |-> Put(<<>>, get_job_id(OldJob), OldJob)]) }

Init ==
    /\ file \in InitFiles
    /\ proc = "down"
    /\ seen_jobs = EmptyDict
    /\ pc = [t \in Threads |-> "off"]
    /\ idx = [t \in Threads |-> 0]
    /\ all_new_jobs = [t \in Threads |-> <<>>]
    /\ last = [t \in Threads |-> NoCall]
    /\ trace = [t \in Threads |-> <<>>]
    /\ failedSrc = [t \in Threads |-> FALSE]
    /\ seen0 = [t \in Threads |-> {}]
    /\ err = [t \in Threads |-> "none"]
    /\ last_results = NoResults
    /\ sent = {}
    /\ returned = <<>>
    /\ inserted = {}
    /\ persisted = {}
    /\ written = FALSE
    /\ runs = 0
    /\ crashes = 0
    /\ fpIn = <<>>
    /\ fpOut = <<>>

\* python app.py: scraper = JobScraper() loads the Seen-Set, the scheduler
\* is started, and the main thread stands before its check_jobs() call
Boot ==
    /\ proc = "down"
    /\ LET l == load_seen_jobs(file)
       IN  /\ proc' = IF l.raised = "none" THEN "up" ELSE "failed"
           /\ seen_jobs' = l.seen
           /\ pc' = IF l.raised = "none"
                    THEN [t \in Threads |-> IF t = "main" THEN "ready" ELSE "idle"]
                    ELSE pc
    /\ UNCHANGED <<file, idx, all_new_jobs, last, trace, failedSrc, seen0, err,
                   last_results, sent, returned, inserted, persisted, written,
                   runs, crashes, fpVars>>

\* Where a thread stands once its check_jobs call is over
Rest(t) == IF t = "main" THEN "done" ELSE "idle"

InFlight(t) == pc[t] \in {"loop", "save", "dump", "report"}

\* check_jobs calls scrape_all: all_new_jobs = []
Begin(t) ==
    /\ pc' = [pc EXCEPT ![t] = "loop"]
    /\ idx' = [idx EXCEPT ![t] = 1]
    /\ all_new_jobs' = [all_new_jobs EXCEPT ![t] = <<>>]
    /\ last' = [last EXCEPT ![t] = NoCall]
    /\ trace' = [trace EXCEPT ![t] = <<>>]
    /\ failedSrc' = [failedSrc EXCEPT ![t] = FALSE]
    /\ seen0' = [seen0 EXCEPT ![t] = DOMAIN seen_jobs.items]
    /\ err' = [err EXCEPT ![t] = "none"]

\* The locals of a scrape_all call that is over
Leave(t) ==
    /\ idx' = [idx EXCEPT ![t] = 0]
    /\ all_new_jobs' = [all_new_jobs EXCEPT ![t] = <<>>]
    /\ last' = [last EXCEPT ![t] = NoCall]
    /\ trace' = [trace EXCEPT ![t] = <<>>]
    /\ failedSrc' = [failedSrc EXCEPT ![t] = FALSE]
    /\ seen0' = [seen0 EXCEPT ![t] = {}]

\* check_jobs: except Exception as e: logger.error(...)
Abort(t, exc) ==
    /\ pc' = [pc EXCEPT ![t] = Rest(t)]
    /\ err' = [err EXCEPT ![t] = exc]
    /\ Leave(t)

\* with app.app_context(): check_jobs()
StartupCheck ==
    /\ proc = "up"
    /\ pc["main"] = "ready"
    /\ Begin("main")
    /\ UNCHANGED <<file, proc, seen_jobs, last_results, sent, returned,
                   inserted, persisted, written, runs, crashes, fpVars>>

\* The interval trigger fires check_jobs on the scheduler's worker; the job's
\* previous run is over (one instance of a job at a time).  With `serial`
\* the firing comes after the startup call has ended.
ScheduledCheck(serial) ==
    /\ proc = "up"
    /\ pc["sched"] = "idle"
    /\ runs < MaxRuns
    /\ serial => pc["main"] = "done"
    /\ runs' = runs + 1
    /\ Begin("sched")
    /\ UNCHANGED <<file, proc, seen_jobs, last_results, sent, returned,
                   inserted, persisted, written, crashes, fpVars>>

\* How the fetch of a scraper call went
Outcome(r) ==
    IF Raised(r) \in FetchErrors THEN "fetch_error"
    ELSE IF Raised(r) # "none" THEN "parse_error"
    ELSE IF OkStatus(r.status) THEN "ok" ELSE "bad_status"

\* One round of scrape_all's "for company in self.companies": the scraper
\* call with its fetch, then the filter against seen_jobs
ScrapeCompany(t) ==
    /\ proc = "up"
    /\ pc[t] = "loop"
    /\ \E r \in Responses(companies[idx[t]].type) :
        LET company == companies[idx[t]]
            res == Scrape(company, r)
            f == Filter(res.jobs, seen_jobs.items, <<>>, {})
            exc == IF res.raised # "none" THEN res.raised
                   ELSE IF seen_jobs.type # "dict" /\ res.jobs # <<>>
                        THEN "TypeError" ELSE "none"
        IN  IF exc # "none"
            THEN /\ Abort(t, exc)
                 /\ UNCHANGED <<seen_jobs, inserted>>
            ELSE /\ seen_jobs' = [seen_jobs EXCEPT !.items = f.d]
                 /\ inserted' = inserted \cup Ids(f.new)
                 /\ all_new_jobs' = [all_new_jobs EXCEPT ![t] = @ \o f.new]
                 /\ idx' = [idx EXCEPT ![t] = @ + 1]
                 /\ pc' = [pc EXCEPT ![t] =
                              IF idx[t] = NumCompanies THEN "save" ELSE "loop"]
                 /\ last' = [last EXCEPT ![t] =
                                [how |-> Outcome(r), jobs |-> res.jobs,
                                 new |-> f.new]]
                 /\ trace' = [trace EXCEPT ![t] =
                                 LastTwo(@ \o <<"fetch">>
                                           \o (IF res.slept THEN <<"sleep">>
                                               ELSE <<>>))]
                 /\ failedSrc' = [failedSrc EXCEPT ![t] =
                                     @ \/ Raised(r) \in FetchErrors]
                 /\ UNCHANGED <<seen0, err>>
    /\ UNCHANGED <<file, proc, last_results, sent, returned, persisted,
                   written, runs, crashes, fpVars>>

\* save_seen_jobs: open(self.seen_file, 'w') truncates the file, or raises
SaveOpen(t) ==
    /\ proc = "up"
    /\ pc[t] = "save"
    /\ \E ok \in BOOLEAN :
        IF ok
        THEN /\ file' = Truncated
             /\ written' = TRUE
             /\ pc' = [pc EXCEPT ![t] = "dump"]
             /\ UNCHANGED <<idx, all_new_jobs, last, trace, failedSrc, seen0,
                            err>>
        ELSE /\ Abort(t, "OSError")
             /\ UNCHANGED <<file, written>>
    /\ UNCHANGED <<proc, seen_jobs, last_results, sent, returned, inserted,
                   persisted, runs, crashes, fpVars>>

\* save_seen_jobs: json.dump writes the mapping and the file is closed, or a
\* write raises; then scrape_all returns all_new_jobs
SaveDump(t) ==
    /\ proc = "up"
    /\ pc[t] = "dump"
    /\ \E ok \in BOOLEAN :
        IF ok
        THEN /\ file' = JsonDump(seen_jobs)
             /\ persisted' = persisted \cup Ids(all_new_jobs[t])
             /\ returned' = returned \o IdSeq(all_new_jobs[t])
             /\ pc' = [pc EXCEPT ![t] = "report"]
             /\ UNCHANGED <<idx, all_new_jobs, last, trace, failedSrc, seen0,
                            err>>
        ELSE /\ Abort(t, "OSError")
             /\ UNCHANGED <<file, persisted, returned>>
    /\ UNCHANGED <<proc, seen_jobs, last_results, sent, inserted, written,
                   runs, crashes, fpVars>>

\* check_jobs after scrape_all has returned new_jobs: last_results and
\* send_alert_email (a failed delivery is logged and changes nothing)
Report(t) ==
    /\ proc = "up"
    /\ pc[t] = "report"
    /\ LET new_jobs == all_new_jobs[t]
       IN  IF new_jobs # <<>>
           THEN /\ last_results' =
                      [jobs |-> new_jobs, last_check |-> "now",
                       total_found |-> last_results.total_found + Len(new_jobs)]
                /\ sent' = sent \cup Ids(new_jobs)
           ELSE /\ last_results' = [last_results EXCEPT !.last_check = "now"]
                /\ sent' = sent
    /\ pc' = [pc EXCEPT ![t] = Rest(t)]
    /\ Leave(t)
    /\ UNCHANGED <<file, proc, seen_jobs, err, returned, inserted, persisted,
                   written, runs, crashes, fpVars>>

\* The process is killed; the file stays as the last write left it
Crash ==
    /\ proc = "up"
    /\ crashes < MaxCrashes
    /\ crashes' = crashes + 1
    /\ proc' = "down"
    /\ seen_jobs' = EmptyDict
    /\ pc' = [t \in Threads |-> "off"]
    /\ idx' = [t \in Threads |-> 0]
    /\ all_new_jobs' = [t \in Threads |-> <<>>]
    /\ last' = [t \in Threads |-> NoCall]
    /\ trace' = [t \in Threads |-> <<>>]
    /\ failedSrc' = [t \in Threads |-> FALSE]
    /\ seen0' = [t \in Threads |-> {}]
    /\ err' = [t \in Threads |-> "none"]
    /\ last_results' = NoResults
    /\ sent' = {}
    /\ returned' = <<>>
    /\ inserted' = {}
    /\ UNCHANGED <<file, persisted, written, runs, fpVars>>

\* The program: the startup call on the main thread, the scheduler's firings
\* on its worker, whenever they come
OverlapNext ==
    \/ Boot
    \/ StartupCheck
    \/ ScheduledCheck(FALSE)
    \/ \E t \in Threads : ScrapeCompany(t)
    \/ \E t \in Threads : SaveOpen(t)
    \/ \E t \in Threads : SaveDump(t)
    \/ \E t \in Threads : Report(t)

OverlapSpec == Init /\ [][OverlapNext]_vars

\* One JobScraper whose cycles come one after another: the process runs on,
\* and the first scheduled firing comes after the startup call has ended
SerialNext ==
    \/ Boot
    \/ StartupCheck
    \/ ScheduledCheck(TRUE)
    \/ \E t \in Threads : ScrapeCompany(t)
    \/ \E t \in Threads : SaveOpen(t)
    \/ \E t \in Threads : SaveDump(t)
    \/ \E t \in Threads : Report(t)

SerialSpec == Init /\ [][SerialNext]_vars

\* Cycles one after another in a process that may be killed at any point
\* and started again
RestartNext ==
    \/ Boot
    \/ StartupCheck
    \/ ScheduledCheck(TRUE)
    \/ \E t \in Threads : ScrapeCompany(t)
    \/ \E t \in Threads : SaveOpen(t)
    \/ \E t \in Threads : SaveDump(t)
    \/ \E t \in Threads : Report(t)
    \/ Crash

RestartSpec == Init /\ [][RestartNext]_vars

-----------------------------------------------------------------------------
(* The fingerprint on its own *)

Alphabet == {"a", "-"}

FpStrs == UNION { [1..n -> Alphabet] : n \in 1..MaxStrLen }

FpJobs == [company : FpStrs, title : FpStrs, url : FpStrs, location : {<<"US">>}]

FpInit ==
    /\ file = Missing
    /\ proc = "down"
    /\ seen_jobs = EmptyDict
    /\ pc = [t \in Threads |-> "off"]
    /\ idx = [t \in Threads |-> 0]
    /\ all_new_jobs = [t \in Threads |-> <<>>]
    /\ last = [t \in Threads |-> NoCall]
    /\ trace = [t \in Threads |-> <<>>]
    /\ failedSrc = [t \in Threads |-> FALSE]
    /\ seen0 = [t \in Threads |-> {}]
    /\ err = [t \in Threads |-> "none"]
    /\ last_results = NoResults
    /\ sent = {}
    /\ returned = <<>>
    /\ inserted = {}
    /\ persisted = {}
    /\ written = FALSE
    /\ runs = 0
    /\ crashes = 0
    /\ fpIn \in FpJobs \X FpJobs
    /\ fpOut = <<>>

\* job_id = self.get_job_id(job), on each of the two postings
Hash ==
    /\ fpOut = <<>>
    /\ fpOut' = <<get_job_id(fpIn[1]), get_job_id(fpIn[2])>>
    /\ UNCHANGED <<file, proc, seen_jobs, pc, idx, all_new_jobs, last, trace,
                   failedSrc, seen0, err, last_results, sent, returned,
                   inserted, persisted, written, runs, crashes, fpIn>>

FpNext == Hash

FpSpec == FpInit /\ [][FpNext]_vars

-----------------------------------------------------------------------------
(* Properties *)

Range(s) == {s[i] : i \in DOMAIN s}

NoRepeat(s) == \A i, j \in DOMAIN s : i # j => s[i] # s[j]

\* C1: a posting whose fingerprint is already in the Seen-Set is never in a
\* novel list: no fingerprint occurs twice within a list or across the lists
\* returned by the cycles of one JobScraper, and none that was in the
\* Seen-Set when the cycle began occurs in the cycle's list.
C1_NoRepeatedReport ==
    /\ NoRepeat(returned)
    /\ \A t \in Threads :
        /\ NoRepeat(IdSeq(all_new_jobs[t]))
        /\ Ids(all_new_jobs[t]) \cap seen0[t] = {}
        /\ pc[t] \in {"loop", "save", "dump"} =>
               Ids(all_new_jobs[t]) \cap Range(returned) = {}

\* C1: the second cycle met a posting the first cycle had reported, and its
\* own novel list came back empty.
C1_SecondCycleEmpty ==
    /\ pc["sched"] = "report"
    /\ returned # <<>>
    /\ all_new_jobs["sched"] = <<>>
    /\ last["sched"].jobs # <<>>
    /\ Ids(last["sched"].jobs) \subseteq Range(returned)

\* C2: a fingerprint inserted by a cycle whose save completed is in the
\* Seen-Set of the running process ever after, across crashes and restarts.
C2_SeenSetMonotonic ==
    proc = "up" => persisted \subseteq DOMAIN seen_jobs.items

\* C3: no cycle is ended by an exception of an HTTP request (on a Seen-Set
\* that is a mapping nothing but the save at its end ends a cycle early); a
\* cycle that is past its loop has fetched every company; and the relevant
\* postings of a fetched company that were not in the Seen-Set when the
\* cycle began are in the cycle's novel list.
C3_SourceIsolation ==
    \A t \in Threads :
        /\ err[t] \notin FetchErrors
        /\ seen_jobs.type = "dict" => err[t] \in {"none", "OSError"}
        /\ pc[t] \in {"save", "dump", "report"} => idx[t] = NumCompanies + 1
        /\ (InFlight(t) /\ last[t].how = "ok") =>
               Ids(last[t].jobs) \subseteq seen0[t] \cup Ids(all_new_jobs[t])

\* C3: after an HTTP request of the cycle has raised, a later company was
\* fetched and one of its postings was found new.
C3_ContributesAfterFailure ==
    \E t \in Threads :
        /\ failedSrc[t]
        /\ pc[t] \in {"loop", "save"}
        /\ last[t].how = "ok"
        /\ last[t].new # <<>>
        /\ Ids(last[t].new) \subseteq Ids(all_new_jobs[t])

\* C4: the startup call and the scheduler's firings never overlap: at most
\* one check_jobs call is in flight.
C4_OneCycleInFlight ==
    ~(InFlight("main") /\ InFlight("sched"))

ValidMapping(f) == f.kind = "text" /\ f.valid /\ f.doc.type = "dict"

\* C5: whatever the Seen-Set file holds, loading does not raise (the process
\* starts), and a file that is not a well-formed mapping leaves the Seen-Set
\* an empty mapping.
C5_LoadResilient ==
    /\ proc # "failed"
    /\ (proc = "up" /\ pc["main"] = "ready" /\ ~ValidMapping(file)) =>
           seen_jobs = EmptyDict

Tuple(job) == <<job.company, job.title, job.url>>

\* C6: two postings have the same fingerprint exactly when their
\* (company, title, url) are the same.
C6_FingerprintDistinct ==
    fpOut # <<>> =>
        ((fpOut[1] = fpOut[2]) <=> (Tuple(fpIn[1]) = Tuple(fpIn[2])))

FetchFailures == {"fetch_error", "bad_status"}

\* C7: a fetch that ends in a timeout, a connection failure or a status
\* outside 2xx/3xx contributes no posting: nothing of its body is returned by
\* the scraper or inserted in the Seen-Set.
C7_FailedFetchContributesNothing ==
    \A t \in Threads :
        last[t].how \in FetchFailures =>
            last[t].jobs = <<>> /\ last[t].new = <<>>

\* C8: within a cycle no two fetches follow each other without a delay
\* between them.
C8_DelayBetweenFetches ==
    \A t \in Threads : trace[t] # <<"fetch", "fetch">>

\* C9: once the program has written the Seen-Set file, the file a killed
\* process leaves behind is a complete, well-formed mapping.
C9_FileWellFormedAfterCrash ==
    (written /\ proc = "down") => ValidMapping(file)

\* C10: when no cycle is in flight, total_found counts every fingerprint
\* inserted in the Seen-Set since the process started.
C10_InsertedAreReported ==
    (proc = "up" /\ \A t \in Threads : ~InFlight(t)) =>
        last_results.total_found = Cardinality(inserted)

=============================================================================
